---- MODULE Spec2Model ----
(***************************************************************************)
(* Model of the two drafts of the cafe-interview chat backend:             *)
(*   src/app.py             ("app")                                        *)
(*   src/imp_final_trial.py ("trial")                                      *)
(* Each draft scans the working directory for *.json files at import       *)
(* time, flattens them into FULL_INTERVIEW_CONTEXT, and serves POST /chat  *)
(* by handing the context and the user's query to the generation API.      *)
(*                                                                         *)
(* Text is modelled as a sequence of string tokens; concatenation is \o,   *)
(* str.join is Join.  JSON values are trees of uniform nodes [t, s, items].*)
(***************************************************************************)
EXTENDS Naturals, Sequences, FiniteSets

VARIABLES
    impl,                   \* which draft runs: "app" or "trial"
    dir,                    \* the working directory: path -> file content
    startup,                \* "init" | "serving" | "crashed"
    listing,                \* what glob.glob returned in the last scan
    blocks,                 \* the scan's local list `parts`, each with its source path
    FULL_INTERVIEW_CONTEXT, \* the module-level context text
    SYSTEM_INSTRUCTION,     \* app.py's module-level prompt
    runs,                   \* how many times the process has been started
    prevContext,            \* the context the previous process run assembled
    req,                    \* the /chat requests being served, per worker slot
    lastHealth              \* the last liveness response sent

vars == <<impl, dir, startup, listing, blocks, FULL_INTERVIEW_CONTEXT,
          SYSTEM_INSTRUCTION, runs, prevContext, req, lastHealth>>

(***************************************************************************)
(* Bounds                                                                  *)
(***************************************************************************)
MaxFiles == 2
MaxTurns == 2
MaxRequests == 2
MaxRuns == 2

(***************************************************************************)
(* JSON values and file contents                                           *)
(***************************************************************************)
Node(t, s, items) == [t |-> t, s |-> s, items |-> items]

JList(items) == Node("list", "", items)
JDict(pairs) == Node("dict", "", pairs)
JStr(s) == Node("str", s, <<>>)
JNum(s) == Node("num", s, <<>>)
JNull == Node("null", "", <<>>)
Pair(k, v) == Node("pair", k, <<v>>)

\* open() raises OSError / json.load raises ValueError
Unreadable == Node("unreadable", "", <<>>)
Malformed == Node("malformed", "", <<>>)

\* `key in data` for a dict
HasKey(d, k) == \E i \in 1..Len(d.items) : d.items[i].s = k

\* data[key] for a dict that has the key
Lookup(d, k) == d.items[CHOOSE i \in 1..Len(d.items) : d.items[i].s = k].items[1]

(***************************************************************************)
(* Text                                                                    *)
(***************************************************************************)
RECURSIVE Join(_, _)
\* sep.join(parts)
Join(parts, sep) ==
    IF parts = <<>> THEN <<>>
    ELSE IF Len(parts) = 1 THEN parts[1]
    ELSE parts[1] \o <<sep>> \o Join(Tail(parts), sep)

\* str(v) as an f-string renders a parsed JSON scalar
Str(v) ==
    CASE v.t = "str" -> v.s
      [] v.t = "num" -> v.s
      [] v.t = "null" -> "None"

\* str.upper on the section names in use
Upper(s) ==
    CASE s = "pricing" -> "PRICING"
      [] s = "ambience" -> "AMBIENCE"

RECURSIVE Spaces(_)
Spaces(n) == IF n = 0 THEN <<>> ELSE <<"  ">> \o Spaces(n - 1)

RECURSIVE Dumps(_, _)
RECURSIVE DumpsItems(_, _, _)
\* json.dumps(v, indent=2) at nesting level `level`
Dumps(v, level) ==
    CASE v.t = "str" -> <<"\"", v.s, "\"">>
      [] v.t = "num" -> <<v.s>>
      [] v.t = "null" -> <<"null">>
      [] v.t = "list" ->
            IF v.items = <<>> THEN <<"[]">>
            ELSE <<"[">> \o DumpsItems(v.items, level + 1, FALSE)
                         \o <<"\n">> \o Spaces(level) \o <<"]">>
      [] v.t = "dict" ->
            IF v.items = <<>> THEN <<"{}">>
            ELSE <<"{">> \o DumpsItems(v.items, level + 1, TRUE)
                         \o <<"\n">> \o Spaces(level) \o <<"}">>

DumpsItems(items, level, keyed) ==
    IF items = <<>> THEN <<>>
    ELSE <<"\n">> \o Spaces(level)
         \o (IF keyed
             THEN <<"\"", items[1].s, "\"", ": ">> \o Dumps(items[1].items[1], level)
             ELSE Dumps(items[1], level))
         \o (IF Len(items) > 1 THEN <<",">> ELSE <<>>)
         \o DumpsItems(Tail(items), level, keyed)

(***************************************************************************)
(* Paths.  glob returns full paths under os.getcwd(); PathTable lists the  *)
(* candidate files in lexicographic order of their full path, with the     *)
(* basename and the outcome of the two substring tests of app.py:79.       *)
(***************************************************************************)
PathTable ==
    << [full |-> "/app/block.json",       base |-> "block.json",
        package |-> FALSE, lock |-> TRUE],
       [full |-> "/app/interview_1.json", base |-> "interview_1.json",
        package |-> FALSE, lock |-> FALSE],
       [full |-> "/app/package.json",     base |-> "package.json",
        package |-> TRUE,  lock |-> FALSE],
       [full |-> "/app/survey_1.json",    base |-> "survey_1.json",
        package |-> FALSE, lock |-> FALSE] >>

PathNames == {PathTable[i].full : i \in 1..Len(PathTable)}

Rank(p) == CHOOSE i \in 1..Len(PathTable) : PathTable[i].full = p

\* os.path.basename(file_path)
Basename(p) == PathTable[Rank(p)].base

\* "package" in path or "lock" in path
Excluded(p) == PathTable[Rank(p)].package \/ PathTable[Rank(p)].lock

\* all orders in which glob.glob may list the files of a set
Listings(S) ==
    {l \in [1..Cardinality(S) -> S] : \A i, j \in 1..Cardinality(S) : l[i] = l[j] => i = j}

RECURSIVE SortedSet(_)
SortedSet(S) ==
    IF S = {} THEN <<>>
    ELSE LET m == CHOOSE p \in S : \A q \in S : Rank(p) <= Rank(q)
         IN <<m>> \o SortedSet(S \ {m})

\* sorted(glob.glob(...))
Sorted(l) == SortedSet({l[i] : i \in 1..Len(l)})

(***************************************************************************)
(* Formatters                                                              *)
(***************************************************************************)
InterviewHeader(path) == <<"=== Interview File: ", Basename(path), " ===">>
SurveyHeader(path) == <<"=== Survey Analytics File: ", Basename(path), " ===">>

\* entry.get(key, default), as the f-string renders it
GetStr(entry, key, default) ==
    IF HasKey(entry, key) THEN Str(Lookup(entry, key)) ELSE default

\* TurnText with the speaker default dropped: entry.get("speaker", "")
TurnTextEmptyDefault(entry) ==
    <<"\n", GetStr(entry, "speaker", ""), ":\nQ: ",
      GetStr(entry, "question", ""), "\nA: ", GetStr(entry, "answer", "")>>

\* f"\n{speaker}:\nQ: {question}\nA: {answer}"
TurnText(entry) ==
    <<"\n", GetStr(entry, "speaker", "Unknown"), ":\nQ: ",
      GetStr(entry, "question", ""), "\nA: ", GetStr(entry, "answer", "")>>

\* whether `for entry in data: entry.get(...)` raises: only a mapping has .get
\* (iterating a mapping yields its keys, a string its characters)
InterviewRaises(data) ==
    CASE data.t = "list" -> \E i \in 1..Len(data.items) : data.items[i].t # "dict"
      [] data.t = "dict" -> data.items # <<>>
      [] data.t = "str" -> data.s # ""
      [] OTHER -> TRUE

\* the list `parts` built by load_and_parse_json when nothing raises
InterviewParts(path, data) ==
    <<InterviewHeader(path)>> \o [i \in 1..Len(data.items) |-> TurnText(data.items[i])]

\* the body of load_and_parse_json, shared by both drafts
FormatInterview(path, data) ==
    IF data.t \in {"unreadable", "malformed"} \/ InterviewRaises(data)
    THEN [raised |-> TRUE, text |-> <<>>]
    ELSE [raised |-> FALSE, text |-> Join(InterviewParts(path, data), "\n")]

RECURSIVE SummaryParts(_)
\* the loop over data["survey_summary"].items()
SummaryParts(pairs) ==
    IF pairs = <<>> THEN <<>>
    ELSE << <<"\n[", Upper(pairs[1].s), "]">>, Dumps(pairs[1].items[1], 0) >>
         \o SummaryParts(Tail(pairs))

\* the loop over data["free_text_insights"].items()
InsightParts(pairs) ==
    [i \in 1..Len(pairs) |-> <<"\nQ: ", pairs[i].s, "\nSummary: ", Str(pairs[i].items[1])>>]

\* whether load_survey_json raises: .items() exists on a mapping only
SurveyRaises(data) ==
    \/ data.t # "dict"
    \/ HasKey(data, "survey_summary") /\ Lookup(data, "survey_summary").t # "dict"
    \/ HasKey(data, "free_text_insights") /\ Lookup(data, "free_text_insights").t # "dict"

SurveyParts(path, data) ==
    <<SurveyHeader(path)>>
    \o (IF HasKey(data, "survey_summary")
        THEN << <<"\n--- SURVEY SUMMARY ---">> >>
             \o SummaryParts(Lookup(data, "survey_summary").items)
        ELSE <<>>)
    \o (IF HasKey(data, "free_text_insights")
        THEN << <<"\n--- FREE TEXT INSIGHTS ---">> >>
             \o InsightParts(Lookup(data, "free_text_insights").items)
        ELSE <<>>)

\* the body of load_survey_json, shared by both drafts
FormatSurvey(path, data) ==
    IF data.t \in {"unreadable", "malformed"} \/ SurveyRaises(data)
    THEN [raised |-> TRUE, text |-> <<>>]
    ELSE [raised |-> FALSE, text |-> Join(SurveyParts(path, data), "\n")]

\* app.py wraps each formatter in try/except and returns "" on any exception
LoadAndParseJsonApp(path, data) == FormatInterview(path, data).text
LoadSurveyJsonApp(path, data) == FormatSurvey(path, data).text

(***************************************************************************)
(* Classification and scan                                                 *)
(***************************************************************************)
\* Classify without the key test: every mapping is taken for a survey
ClassifyAnyMapping(data) ==
    IF data.t = "list" THEN "Interview"
    ELSE IF data.t = "dict" THEN "Survey"
    ELSE "Unrecognized"

\* the isinstance chain of both scans
Classify(data) ==
    IF data.t = "list" THEN "Interview"
    ELSE IF data.t = "dict"
            /\ (HasKey(data, "survey_summary") \/ HasKey(data, "free_text_insights"))
         THEN "Survey"
    ELSE "Unrecognized"

Block(path, text) == [path |-> path, text |-> text]

\* one iteration of the loop of load_context on the directory d
ScanFileApp(d, path) ==
    IF Excluded(path) THEN [raised |-> FALSE, add |-> <<>>]
    ELSE IF d[path].t = "unreadable" THEN [raised |-> TRUE, add |-> <<>>]
    ELSE IF d[path].t = "malformed" THEN [raised |-> FALSE, add |-> <<>>]
    ELSE IF Classify(d[path]) = "Interview"
         THEN [raised |-> FALSE, add |-> <<Block(path, LoadAndParseJsonApp(path, d[path]))>>]
    ELSE IF Classify(d[path]) = "Survey"
         THEN [raised |-> FALSE, add |-> <<Block(path, LoadSurveyJsonApp(path, d[path]))>>]
    ELSE [raised |-> FALSE, add |-> <<>>]

\* one iteration of the loop of load_all_json_from_folder on the directory d
ScanFileTrial(d, path) ==
    IF d[path].t \in {"unreadable", "malformed"} THEN [raised |-> FALSE, add |-> <<>>]
    ELSE IF Classify(d[path]) = "Interview"
         THEN IF FormatInterview(path, d[path]).raised
              THEN [raised |-> FALSE, add |-> <<>>]
              ELSE [raised |-> FALSE,
                    add |-> <<Block(path, FormatInterview(path, d[path]).text)>>]
    ELSE IF Classify(d[path]) = "Survey"
         THEN IF FormatSurvey(path, d[path]).raised
              THEN [raised |-> FALSE, add |-> <<>>]
              ELSE [raised |-> FALSE,
                    add |-> <<Block(path, FormatSurvey(path, d[path]).text)>>]
    ELSE [raised |-> FALSE, add |-> <<>>]

ScanFile(i, d, path) == IF i = "app" THEN ScanFileApp(d, path) ELSE ScanFileTrial(d, path)

RECURSIVE ScanLoop(_, _, _, _)
\* the for loop over json_paths, with `parts` so far
ScanLoop(i, d, paths, parts) ==
    IF paths = <<>> THEN [raised |-> FALSE, parts |-> parts]
    ELSE LET r == ScanFile(i, d, paths[1])
         IN IF r.raised THEN [raised |-> TRUE, parts |-> parts]
            ELSE ScanLoop(i, d, Tail(paths), parts \o r.add)

\* JsonPaths without sorted(): the files in glob's order
JsonPathsUnsorted(l) == l

\* json_paths as the scan walks it
JsonPaths(l) == Sorted(l)

\* load_context() / load_all_json_from_folder(DIRECTORY) given glob's listing l
LoadContext(i, d, l) == ScanLoop(i, d, JsonPaths(l), <<>>)

\* "\n\n".join(parts)
ContextText(parts) == Join([k \in 1..Len(parts) |-> parts[k].text], "\n\n")

(***************************************************************************)
(* Prompt                                                                  *)
(***************************************************************************)
\* SYSTEM_INSTRUCTION of app.py
PromptApp(ctx) ==
    <<"\nYou are an analytical assistant ... Be concise, analytical, and insight-driven.\n\n--- INTERVIEW CONTEXT START ---\n">>
    \o ctx \o <<"\n--- INTERVIEW CONTEXT END ---\n">>

\* system_instruction_text of imp_final_trial.py's chat
PromptTrial(ctx) ==
    <<"\n    You are an analytical assistant ... analytical answers.\n\n    --- INTERVIEW CONTEXT START ---\n    ">>
    \o ctx \o <<"\n    --- INTERVIEW CONTEXT END ---\n    ">>

(***************************************************************************)
(* Directories the model starts from                                       *)
(***************************************************************************)
TurnFull ==
    JDict(<<Pair("speaker", JStr("Owner")), Pair("question", JStr("When did you open?")),
            Pair("answer", JStr("2019"))>>)
TurnNoSpeaker == JDict(<<Pair("question", JStr("Why?")), Pair("answer", JNull)>>)

DocInterview == JList(<<TurnFull>>)
DocTwoTurns == JList(<<TurnNoSpeaker, TurnFull>>)
DocEmptyList == JList(<<>>)
DocScalarElem == JList(<<JStr("note")>>)
DocMixedElems == JList(<<TurnFull, JNull>>)
DocSurvey ==
    JDict(<<Pair("survey_summary",
                 JDict(<<Pair("pricing", JDict(<<Pair("avg", JNum("4.5"))>>))>>)),
            Pair("free_text_insights",
                 JDict(<<Pair("What matters most?", JStr("Ambience"))>>))>>)
DocInsightsOnly ==
    JDict(<<Pair("free_text_insights", JDict(<<Pair("Why visit?", JStr("Coffee"))>>))>>)
DocSummaryNotMapping == JDict(<<Pair("survey_summary", JStr("n/a"))>>)
DocOtherDict == JDict(<<Pair("name", JStr("cafe"))>>)

Contents ==
    {Unreadable, Malformed, DocInterview, DocTwoTurns, DocEmptyList, DocScalarElem,
     DocMixedElems, DocSurvey, DocInsightsOnly, DocSummaryNotMapping, DocOtherDict,
     JStr("hello"), JNull}

Directories ==
    UNION {[S -> Contents] : S \in {T \in SUBSET PathNames : Cardinality(T) <= MaxFiles}}

Impls == {"app", "trial"}

(***************************************************************************)
(* Requests                                                                *)
(***************************************************************************)
Absent == Node("absent", "", <<>>)

Body(kind, message, query) == [kind |-> kind, message |-> message, query |-> query]

NoBody == Body("none", Absent, Absent)

Bodies ==
    {Body("object", Absent, Absent),
     Body("object", JStr(""), Absent), Body("object", JStr("hi"), Absent),
     Body("object", Absent, JStr("")), Body("object", Absent, JStr("hi")),
     Body("object", JNum("7"), Absent), Body("object", Absent, JNum("7")),
     Body("object", JNull, JNull),
     Body("null", Absent, Absent), Body("list", Absent, Absent),
     Body("badjson", Absent, Absent), Body("nonjson", Absent, Absent)}

Request(pc, body, status, envelope, escaped, invoked, prompt) ==
    [pc |-> pc, body |-> body, status |-> status, envelope |-> envelope,
     escaped |-> escaped, invoked |-> invoked, prompt |-> prompt]

Idle == Request("idle", NoBody, 0, "none", FALSE, FALSE, <<>>)

\* a response produced by jsonify inside the handler
Responded(body, status, envelope, invoked, prompt) ==
    Request("done", body, status, envelope, FALSE, invoked, prompt)

\* an exception left the view function: Flask renders its own HTML error page
Escaped(body, status) == Request("done", body, status, "html", TRUE, FALSE, <<>>)

\* request.json / request.get_json(): the outcomes the installed Flask can produce.
\* Malformed JSON raises BadRequest; a non-JSON content type raises
\* UnsupportedMediaType or, before Flask 2.1, yields None.
GetJson(body) ==
    CASE body.kind = "badjson" -> {[raised |-> 400, kind |-> "none"]}
      [] body.kind = "nonjson" -> {[raised |-> 415, kind |-> "none"],
                                   [raised |-> 0, kind |-> "null"]}
      [] OTHER -> {[raised |-> 0, kind |-> body.kind]}

\* Falsy as `user_query is None`: an empty string passes
FalsyNoneOnly(v) == v.t \in {"absent", "null"}

\* `not user_query`, where a missing key reads as None
Falsy(v) ==
    \/ v.t \in {"absent", "null"}
    \/ v.t = "str" /\ v.s = ""
    \/ v.t = "num" /\ v.s = "0"
    \/ v.t \in {"list", "dict"} /\ v.items = <<>>

\* chat() of app.py up to its first return or the blocking generation call
ChatEntryApp(body, parsed, sys) ==
    IF parsed.raised # 0 THEN Responded(body, 500, "error", FALSE, <<>>)
    ELSE IF parsed.kind # "object" THEN Responded(body, 500, "error", FALSE, <<>>)
    ELSE IF Falsy(body.message) THEN Responded(body, 400, "error", FALSE, <<>>)
    ELSE Request("calling", body, 0, "none", FALSE, TRUE, sys)

\* chat() of imp_final_trial.py up to its first return or the blocking generation
\* call; partOk: whether Part.from_text accepted the query
ChatEntryTrial(body, parsed, ctx, partOk) ==
    IF parsed.raised # 0 THEN Escaped(body, parsed.raised)
    ELSE IF parsed.kind # "object" THEN Escaped(body, 500)
    ELSE IF Falsy(body.query) THEN Responded(body, 400, "error", FALSE, <<>>)
    ELSE IF ~partOk THEN Responded(body, 500, "error", FALSE, <<>>)
    ELSE Request("calling", body, 0, "none", FALSE, TRUE, PromptTrial(ctx))

\* Part.from_text(text=user_query) validates its argument as a string
PartOutcomes(body) == IF body.query.t = "str" THEN {TRUE} ELSE {TRUE, FALSE}

(***************************************************************************)
(* Actions                                                                 *)
(***************************************************************************)
AllIdle == [r \in 1..MaxRequests |-> Idle]

\* module import: the scan, then the module-level assignments
Startup ==
    /\ startup = "init"
    /\ \E l \in Listings(DOMAIN dir) :
        LET r == LoadContext(impl, dir, l)
        IN /\ listing' = l
           /\ startup' = IF r.raised THEN "crashed" ELSE "serving"
           /\ blocks' = IF r.raised THEN <<>> ELSE r.parts
           /\ FULL_INTERVIEW_CONTEXT' = IF r.raised THEN <<>> ELSE ContextText(r.parts)
           /\ SYSTEM_INSTRUCTION' =
                IF ~r.raised /\ impl = "app" THEN PromptApp(ContextText(r.parts)) ELSE <<>>
    /\ runs' = runs + 1
    /\ UNCHANGED <<impl, dir, prevContext, req, lastHealth>>

\* the process is stopped and started again on the unchanged directory
Restart ==
    /\ startup = "serving"
    /\ runs < MaxRuns
    /\ startup' = "init"
    /\ prevContext' = FULL_INTERVIEW_CONTEXT
    /\ listing' = <<>>
    /\ blocks' = <<>>
    /\ FULL_INTERVIEW_CONTEXT' = <<>>
    /\ SYSTEM_INSTRUCTION' = <<>>
    /\ req' = AllIdle
    /\ UNCHANGED <<impl, dir, runs, lastHealth>>

\* ChatBegin keeping a chat history in the shared context
ChatBeginRemembers(r) ==
    /\ startup = "serving"
    /\ req[r].pc = "idle"
    /\ \E body \in Bodies : \E parsed \in GetJson(body) : \E partOk \in PartOutcomes(body) :
        /\ req' = [req EXCEPT ![r] =
                     IF impl = "app"
                     THEN ChatEntryApp(body, parsed, SYSTEM_INSTRUCTION)
                     ELSE ChatEntryTrial(body, parsed, FULL_INTERVIEW_CONTEXT, partOk)]
        /\ FULL_INTERVIEW_CONTEXT' =
             IF req'[r].invoked
             THEN FULL_INTERVIEW_CONTEXT \o <<"\nUser: ", req'[r].body.message.s,
                                              req'[r].body.query.s>>
             ELSE FULL_INTERVIEW_CONTEXT
    /\ UNCHANGED <<impl, dir, startup, listing, blocks,
                   SYSTEM_INSTRUCTION, runs, prevContext, lastHealth>>

\* POST /chat arrives on worker r and runs to its first return or to the call
ChatBegin(r) ==
    /\ startup = "serving"
    /\ req[r].pc = "idle"
    /\ \E body \in Bodies : \E parsed \in GetJson(body) : \E partOk \in PartOutcomes(body) :
        req' = [req EXCEPT ![r] =
                  IF impl = "app"
                  THEN ChatEntryApp(body, parsed, SYSTEM_INSTRUCTION)
                  ELSE ChatEntryTrial(body, parsed, FULL_INTERVIEW_CONTEXT, partOk)]
    /\ UNCHANGED <<impl, dir, startup, listing, blocks, FULL_INTERVIEW_CONTEXT,
                   SYSTEM_INSTRUCTION, runs, prevContext, lastHealth>>

\* client.models.generate_content returns or raises; the handler answers
ChatFinish(r) ==
    /\ req[r].pc = "calling"
    /\ \E returned \in BOOLEAN :
        req' = [req EXCEPT ![r] =
                  IF returned
                  THEN Responded(req[r].body, 200, "response", TRUE, req[r].prompt)
                  ELSE Responded(req[r].body, 500, "error", TRUE, req[r].prompt)]
    /\ UNCHANGED <<impl, dir, startup, listing, blocks, FULL_INTERVIEW_CONTEXT,
                   SYSTEM_INSTRUCTION, runs, prevContext, lastHealth>>

\* the response has been sent; the worker is free again
Close(r) ==
    /\ req[r].pc = "done"
    /\ req' = [req EXCEPT ![r] = Idle]
    /\ UNCHANGED <<impl, dir, startup, listing, blocks, FULL_INTERVIEW_CONTEXT,
                   SYSTEM_INSTRUCTION, runs, prevContext, lastHealth>>

\* GET / (app.py) or GET /health (imp_final_trial.py)
Health ==
    /\ startup = "serving"
    /\ lastHealth' = IF impl = "app" THEN "200 text" ELSE "200 json"
    /\ UNCHANGED <<impl, dir, startup, listing, blocks, FULL_INTERVIEW_CONTEXT,
                   SYSTEM_INSTRUCTION, runs, prevContext, req>>

(***************************************************************************)
(* Specifications                                                          *)
(***************************************************************************)
InitProcess ==
    /\ impl \in Impls
    /\ startup = "init"
    /\ listing = <<>>
    /\ blocks = <<>>
    /\ FULL_INTERVIEW_CONTEXT = <<>>
    /\ SYSTEM_INSTRUCTION = <<>>
    /\ runs = 0
    /\ prevContext = <<>>
    /\ req = AllIdle
    /\ lastHealth = "none"

\* startup on every directory within the bounds
Init == InitProcess /\ dir \in Directories

Next == Startup \/ Restart

Spec == Init /\ [][Next]_vars

(***************************************************************************)
(* The interview formatter on every document of turn mappings              *)
(***************************************************************************)
Present(pairs) == SelectSeq(pairs, LAMBDA x : x.items[1].t # "absent")

\* a turn mapping holding the keys whose value is not Absent
Turn(speaker, question, answer) ==
    JDict(Present(<<Pair("speaker", speaker), Pair("question", question),
                    Pair("answer", answer)>>))

Turns ==
    {Turn(sp, q, a) : sp \in {Absent, JStr("Owner"), JStr("Guest")},
                      q \in {Absent, JStr("When did you open?")},
                      a \in {Absent, JStr("2019")}}

InterviewDocs == UNION {{JList(l) : l \in [1..n -> Turns]} : n \in 0..MaxTurns}

InitFormat ==
    /\ InitProcess
    /\ \E p \in {"/app/interview_1.json", "/app/survey_1.json"} : \E doc \in InterviewDocs :
        dir = [q \in {p} |-> doc]

SpecFormat == InitFormat /\ [][Startup]_vars

(***************************************************************************)
(* Serving requests                                                        *)
(***************************************************************************)
ChatDirs ==
    {<<>>,
     [p \in {"/app/interview_1.json", "/app/survey_1.json"} |->
        IF p = "/app/interview_1.json" THEN DocInterview ELSE DocSurvey],
     [p \in {"/app/interview_1.json", "/app/survey_1.json"} |->
        IF p = "/app/interview_1.json" THEN Malformed ELSE DocInsightsOnly]}

InitChat == InitProcess /\ dir \in ChatDirs

NextChat ==
    \/ Startup
    \/ \E r \in 1..MaxRequests : ChatBegin(r)
    \/ \E r \in 1..MaxRequests : ChatFinish(r)
    \/ \E r \in 1..MaxRequests : Close(r)
    \/ Health

SpecChat == InitChat /\ [][NextChat]_vars

(***************************************************************************)
(* Properties of the directory scan (Spec)                                 *)
(***************************************************************************)
BlockPaths == {blocks[k].path : k \in 1..Len(blocks)}

\* a list of turn mappings, or a survey mapping whose recognized fields are mappings
ValidDocument(c) ==
    \/ c.t = "list" /\ \A i \in 1..Len(c.items) : c.items[i].t = "dict"
    \/ /\ c.t = "dict"
       /\ HasKey(c, "survey_summary") \/ HasKey(c, "free_text_insights")
       /\ HasKey(c, "survey_summary") => Lookup(c, "survey_summary").t = "dict"
       /\ HasKey(c, "free_text_insights") => Lookup(c, "free_text_insights").t = "dict"

HasHeader(text, header) == Len(text) >= Len(header) /\ SubSeq(text, 1, Len(header)) = header

\* C1: an unreadable or malformed file never aborts the scan: startup never
\* ends in a raised exception, and every non-excluded valid interview or
\* survey file of the directory has its block in the result.
ScanNeverAborts ==
    /\ startup # "crashed"
    /\ startup = "serving" =>
         \A p \in DOMAIN dir : ~Excluded(p) /\ ValidDocument(dir[p]) => p \in BlockPaths

\* C2: no file whose path contains "package" or "lock" contributes a block,
\* in either draft.
PackageLockNeverIncluded == \A k \in 1..Len(blocks) : ~Excluded(blocks[k].path)

\* C6: every non-excluded file that parses to a list yields an interview
\* block carrying its header, whatever the shape of the list's elements.
AnySequenceYieldsInterviewBlock ==
    startup = "serving" =>
        \A p \in DOMAIN dir : ~Excluded(p) /\ dir[p].t = "list" =>
            \E k \in 1..Len(blocks) :
                blocks[k].path = p /\ HasHeader(blocks[k].text, InterviewHeader(p))

\* C7: classification is total and exclusive: once the scan has run, a block
\* comes from a list (and is then an interview block) or from a mapping with
\* survey_summary or free_text_insights (and is then a survey block), never
\* both; a mapping with neither key, a scalar and null contribute no block.
ClassificationTotal ==
    startup = "serving" =>
        /\ \A p \in DOMAIN dir :
              \/ dir[p].t \in {"str", "num", "null"}
              \/ /\ dir[p].t = "dict"
                 /\ ~HasKey(dir[p], "survey_summary")
                 /\ ~HasKey(dir[p], "free_text_insights")
              => p \notin BlockPaths
        /\ \A k \in 1..Len(blocks) :
              LET c == dir[blocks[k].path]
                  t == blocks[k].text
              IN /\ \/ c.t = "list"
                    \/ c.t = "dict" /\ (HasKey(c, "survey_summary")
                                        \/ HasKey(c, "free_text_insights"))
                 /\ t # <<>> => (t[1] = "=== Interview File: " <=> c.t = "list")
                 /\ t # <<>> => (t[1] = "=== Survey Analytics File: " <=> c.t = "dict")

\* C7 witness: a scan that met a mapping with neither key next to a survey
\* file, and only the survey contributed.
ClassificationWitness ==
    /\ startup = "serving"
    /\ Len(blocks) = 1
    /\ \E p \in DOMAIN dir : ~Excluded(p) /\ dir[p] = DocOtherDict
    /\ \E p \in DOMAIN dir : ~Excluded(p) /\ dir[p] = DocSurvey

\* C8: the blocks are in lexicographic order of their source paths whatever
\* order glob listed the files in, the context is the blocks joined by a
\* blank line, and a second run on the unchanged directory assembles the
\* same context as the first.
ContextOrderDeterministic ==
    startup = "serving" =>
        /\ \A j, k \in 1..Len(blocks) :
              j < k => Rank(blocks[j].path) < Rank(blocks[k].path)
        /\ FULL_INTERVIEW_CONTEXT = Join([k \in 1..Len(blocks) |-> blocks[k].text], "\n\n")
        /\ runs >= 2 => FULL_INTERVIEW_CONTEXT = prevContext

\* C8 witness: the second run got the two files in descending order and
\* still put interview_1.json's block before survey_1.json's.
OrderWitness ==
    /\ startup = "serving"
    /\ runs = 2
    /\ listing = <<"/app/survey_1.json", "/app/interview_1.json">>
    /\ Len(blocks) = 2
    /\ blocks[1].path = "/app/interview_1.json"
    /\ blocks[2].path = "/app/survey_1.json"
    /\ blocks[1].text # <<>> /\ blocks[2].text # <<>>

\* C10: every block appended to `parts` is a non-empty text that begins with
\* the interview or survey header of its file, so len(parts) counts only
\* files that contributed text.
EveryBlockHasHeader ==
    \A k \in 1..Len(blocks) :
        \/ HasHeader(blocks[k].text, InterviewHeader(blocks[k].path))
        \/ HasHeader(blocks[k].text, SurveyHeader(blocks[k].path))

(***************************************************************************)
(* Properties of the interview formatter (SpecFormat)                      *)
(***************************************************************************)
TheFile == CHOOSE p \in DOMAIN dir : TRUE

\* the string a turn carries under a key, or the default when the key is missing
Shown(turn, key, default) ==
    IF \E i \in 1..Len(turn.items) : turn.items[i].s = key
    THEN LET i == CHOOSE i \in 1..Len(turn.items) : turn.items[i].s = key
         IN turn.items[i].items[1].s
    ELSE default

\* C5: for a document D of turn mappings the formatter's text is the header
\* line followed by exactly Len(D) turn blocks in D's order, each showing
\* speaker (default "Unknown"), question and answer (default "").
InterviewFormat ==
    startup = "serving" =>
        LET D == dir[TheFile].items
            out == FULL_INTERVIEW_CONTEXT
        IN /\ Len(out) = 3 + 7 * Len(D)
           /\ SubSeq(out, 1, 3) = <<"=== Interview File: ", Basename(TheFile), " ===">>
           /\ \A i \in 1..Len(D) :
                SubSeq(out, 7 * i - 3, 7 * i + 3) =
                    <<"\n", "\n", Shown(D[i], "speaker", "Unknown"), ":\nQ: ",
                      Shown(D[i], "question", ""), "\nA: ", Shown(D[i], "answer", "")>>

\* C5 witness: two turns, the first without a speaker, the second with one.
InterviewFormatWitness ==
    /\ startup = "serving"
    /\ Len(dir[TheFile].items) = 2
    /\ ~HasKey(dir[TheFile].items[1], "speaker")
    /\ ~HasKey(dir[TheFile].items[1], "answer")
    /\ HasKey(dir[TheFile].items[2], "speaker")
    /\ Len(FULL_INTERVIEW_CONTEXT) > 3

(***************************************************************************)
(* Properties of the chat endpoint (SpecChat)                              *)
(***************************************************************************)
\* the body field the running draft reads
QueryField(body) == IF impl = "app" THEN body.message ELSE body.query

MissingOrEmpty(v) == v.t \in {"absent", "null"} \/ (v.t = "str" /\ v.s = "")

\* C3: a request whose JSON object lacks the message/query field, or carries
\* it empty, is answered 400 with an error object and never reaches the
\* generation call.
MissingQueryIs400 ==
    \A r \in 1..MaxRequests :
        /\ req[r].pc # "idle"
        /\ req[r].body.kind = "object"
        /\ MissingOrEmpty(QueryField(req[r].body))
        => /\ req[r].pc = "done"
           /\ req[r].status = 400
           /\ req[r].envelope = "error"
           /\ ~req[r].invoked

\* C3 witness: body {} and a body with the field empty have both been answered.
MissingQueryWitness ==
    /\ req[1].pc = "done" /\ req[1].body = Body("object", Absent, Absent)
    /\ req[1].status = 400
    /\ req[2].pc = "done" /\ req[2].body.kind = "object"
    /\ QueryField(req[2].body) = JStr("")

\* C4: every answered POST /chat is 200 {response}, 400 {error} or
\* 500 {error}, and no exception leaves the handler.
EveryChatEndsInEnvelope ==
    \A r \in 1..MaxRequests :
        req[r].pc = "done" =>
            /\ ~req[r].escaped
            /\ <<req[r].status, req[r].envelope>> \in
                 {<<200, "response">>, <<400, "error">>, <<500, "error">>}

\* the prompt the running draft hands to the generation call
PromptOf(ctx) == IF impl = "app" THEN PromptApp(ctx) ELSE PromptTrial(ctx)

\* C9: once loaded, the context and the prompt built from it never change,
\* whatever requests run and however they interleave, and every generation
\* call carries the prompt built from that context.
ContextNeverModified ==
    /\ [][startup = "serving" =>
            /\ FULL_INTERVIEW_CONTEXT' = FULL_INTERVIEW_CONTEXT
            /\ SYSTEM_INSTRUCTION' = SYSTEM_INSTRUCTION]_vars
    /\ [](\A r \in 1..MaxRequests :
            req[r].invoked => req[r].prompt = PromptOf(FULL_INTERVIEW_CONTEXT))

\* C9 witness: one request failed at the provider while another is still in
\* its generation call, on a non-empty context.
ConcurrentChatWitness ==
    /\ FULL_INTERVIEW_CONTEXT # <<>>
    /\ lastHealth # "none"
    /\ req[1].pc = "done" /\ req[1].invoked /\ req[1].status = 500
    /\ req[2].pc = "calling"

====
